---- MODULE Spec2Model ----
(***************************************************************************)
(* A model of webargs' aiohttp parser (src/webargs/aiohttpparser.py):      *)
(* the start-up scan that builds exception_map, the body loaders with      *)
(* their cache, handle_error and get_request_from_view_args.               *)
(***************************************************************************)
EXTENDS Integers, Sequences, FiniteSets, TLC

VARIABLES
    exports,        \* web_exceptions.__all__ : the names the framework exports
    pending,        \* names of exports the loop of _find_exceptions has not visited
    exception_map,  \* status code -> exception class
    request,        \* per request: body_exists, content_type, body
    phase,          \* per request: "new", "running", "done" (its handling)
    pc,             \* per request: where its task is suspended
    op,             \* per request: the loader called last (name, schema)
    data,           \* per request: the local `data` of load_json_or_form
    ret,            \* per request: how the last call ended
    cache,          \* per parser instance: self._cache
    jsonReads,      \* per request: req.json() calls awaited
    postReads,      \* per request: req.post() calls awaited
    calls,          \* per request: loader calls made
    atCall,         \* per request: cache and read counters when the last call began
    budget,         \* per request: loader calls its handler may make
    view_args,      \* positional arguments of a decorated handler
    found           \* how get_request_from_view_args ended

vars == <<exports, pending, exception_map, request, phase, pc, op, data, ret,
          cache, jsonReads, postReads, calls, atCall, budget, view_args, found>>

scanVars == <<exports, pending, exception_map>>
reqVars  == <<request, phase, pc, op, data, ret, cache, jsonReads, postReads,
              calls, atCall, budget>>
argVars  == <<view_args, found>>

(***************************************************************************)
(* Bounds                                                                  *)
(***************************************************************************)
MaxCalls == 3      \* loader calls made while one request is handled alone
MaxConcurrentCalls == 2   \* loader calls of each of two concurrent requests
MaxArgs  == 3      \* positional arguments of a handler

(***************************************************************************)
(* The exception classes: aiohttp.web_exceptions and the local 422 class   *)
(***************************************************************************)
Unprocessable == 422
BadRequest == 400

LocalUnprocessableEntity == "webargs.HTTPUnprocessableEntity"

\* What web_exceptions may export: classes of the HTTPException tree, some
\* sharing a status code, and a name that is no class at all.
ExportUniverse ==
    {"HTTPException", "HTTPClientError", "HTTPBadRequest", "HTTPBadRequestSub",
     "HTTPBadRequestAlt", "HTTPUnprocessableEntity", "not_a_class"}

Classes == (ExportUniverse \ {"not_a_class"}) \cup {LocalUnprocessableEntity}

\* The base class of each class ("object" ends the chain).
Base(c) ==
    CASE c = "HTTPException"           -> "object"
      [] c = "HTTPClientError"         -> "HTTPException"
      [] c = "HTTPBadRequest"          -> "HTTPClientError"
      [] c = "HTTPBadRequestSub"       -> "HTTPBadRequest"
      [] c = "HTTPBadRequestAlt"       -> "HTTPClientError"
      [] c = "HTTPUnprocessableEntity" -> "HTTPClientError"
      [] c = LocalUnprocessableEntity  -> "HTTPClientError"
      [] OTHER                         -> "object"

\* obj.status_code: a set, empty when the attribute is None.
status_code(c) ==
    CASE c \in {"HTTPBadRequest", "HTTPBadRequestSub", "HTTPBadRequestAlt"}
             -> {BadRequest}
      [] c \in {"HTTPUnprocessableEntity", LocalUnprocessableEntity}
             -> {Unprocessable}
      [] OTHER -> {}

RECURSIVE issubclass(_, _)
issubclass(c, d) ==
    IF c = d THEN TRUE
    ELSE IF c = "object" \/ c \notin Classes THEN FALSE
    ELSE issubclass(Base(c), d)

\* issubclass(obj, HTTPException) with TypeError caught (lines 55-58).
is_http_exception(name) == name \in Classes /\ issubclass(name, "HTTPException")

\* exception_map = {422: HTTPUnprocessableEntity}
InitialExceptionMap == [c \in {Unprocessable} |-> LocalUnprocessableEntity]

\* The skip test of line 62, broken: skips when the registered class is the
\* more specific one.
SkipBecauseRegisteredFlipped(obj, old_obj) == issubclass(old_obj, obj)

\* `old_obj is not None and issubclass(obj, old_obj)` for a registered old_obj.
SkipBecauseRegistered(obj, old_obj) == issubclass(obj, old_obj)

\* One iteration of the loop of _find_exceptions.
register(em, name) ==
    IF ~is_http_exception(name) \/ status_code(name) = {} THEN em
    ELSE LET code == CHOOSE s \in status_code(name) : TRUE IN
         IF code \in DOMAIN em /\ SkipBecauseRegistered(name, em[code]) THEN em
         ELSE [s \in DOMAIN em \cup {code} |-> IF s = code THEN name ELSE em[s]]

\* web_exceptions.__all__ in its order, with or without a 422 class.
ExportOrder(with422) ==
    <<"HTTPException", "HTTPClientError", "HTTPBadRequest", "HTTPBadRequestSub",
      "HTTPBadRequestAlt">>
    \o (IF with422 THEN <<"HTTPUnprocessableEntity">> ELSE <<>>)
    \o <<"not_a_class">>

Range(f) == {f[i] : i \in DOMAIN f}

\* The whole loop of _find_exceptions over the names in order.
RECURSIVE FindExceptions(_, _)
FindExceptions(em, names) ==
    IF names = <<>> THEN em
    ELSE FindExceptions(register(em, Head(names)), Tail(names))

\* After start-up: the scan has run over __all__ (line 68).
ScanDone ==
    \E with422 \in BOOLEAN :
        /\ exports = Range(ExportOrder(with422))
        /\ pending = {}
        /\ exception_map = FindExceptions(InitialExceptionMap, ExportOrder(with422))

\* Before the scan: any set of exported names, none visited yet.
ScanInit ==
    /\ exports \in SUBSET ExportUniverse
    /\ pending = exports
    /\ exception_map = InitialExceptionMap

ScanStep ==
    /\ \E name \in pending :
        /\ exception_map' = register(exception_map, name)
        /\ pending' = pending \ {name}
    /\ UNCHANGED <<exports, reqVars, argVars>>

(***************************************************************************)
(* get_request_from_view_args                                              *)
(***************************************************************************)
Requests == {"A", "B"}

Arguments ==
    [t : {"Request"}, id : Requests]
    \cup [t : {"View"}, request : [t : {"Request"}, id : Requests] \cup {[t |-> "None"]}]
    \cup {[t |-> "str"]}

isRequest(x) == x.t = "Request"
isView(x) == x.t = "View"

\* The loop of lines 143-150: req after the loop.
RECURSIVE FirstRequestOrView(_)
FirstRequestOrView(args) ==
    IF args = <<>> THEN [t |-> "None"]
    ELSE IF isRequest(Head(args)) THEN Head(args)
    ELSE IF isView(Head(args)) THEN Head(args).request
    ELSE FirstRequestOrView(Tail(args))

\* A version that takes the request by position.
get_request_by_position(args) ==
    IF args # <<>> /\ isRequest(Head(args))
    THEN [kind |-> "return", value |-> Head(args)]
    ELSE [kind |-> "raise", value |-> [t |-> "ValueError"]]

get_request_from_view_args(args) ==
    LET r == FirstRequestOrView(args) IN
    IF ~isRequest(r)
    THEN [kind |-> "raise", value |-> [t |-> "ValueError"]]
    ELSE [kind |-> "return", value |-> r]

ArgLists == UNION {[1..n -> Arguments] : n \in 0..MaxArgs}

ArgsIdle == view_args = <<>> /\ found = [kind |-> "none"]

\* The handler of a request is called with a path parameter before the request.
ArgsOfHandler ==
    /\ view_args = <<[t |-> "str"], [t |-> "Request", id |-> "A"]>>
    /\ found = [kind |-> "none"]

ArgsInit == view_args \in ArgLists /\ found = [kind |-> "none"]

GetRequest ==
    /\ found = [kind |-> "none"]
    /\ found' = get_request_from_view_args(view_args)
    /\ UNCHANGED <<view_args, scanVars, reqVars>>

(***************************************************************************)
(* Values                                                                  *)
(***************************************************************************)
None    == [t |-> "None"]
missing == [t |-> "missing"]       \* core.missing
Absent  == [t |-> "absent"]        \* a key the cache does not hold

Return(v) == [kind |-> "return", value |-> v]
Raise(e)  == [kind |-> "raise", value |-> e]
NoResult  == [kind |-> "none"]

\* json.dumps(x).encode("utf-8")
json_dumps(x) == [t |-> "bytes", json |-> x]

\* MultiDictProxy(multidict, schema)
MultiDictProxy(d, schema) == [t |-> "MultiDictProxy", of |-> d, schema |-> schema]

Schemas == {"scalar_fields", "list_fields"}

(***************************************************************************)
(* The request                                                             *)
(***************************************************************************)
ContentTypes == {"application/json", "application/x-www-form-urlencoded"}

\* "" is the empty body; the others stand for a body that is not JSON, one
\* that is not UTF-8, the document null and a JSON object.
Bodies == {"", "{not json", "not utf-8", "null", "{object}"}

RequestShapes(r) ==
    {s \in [id : {r}, body_exists : BOOLEAN, content_type : ContentTypes,
            body : Bodies] : ~s.body_exists => s.body = ""}

\* core.is_json(content_type)
is_json(content_type) == content_type = "application/json"

is_json_request(req) == is_json(req.content_type)

\* await req.json(loads=json.loads)
req_json(req) ==
    CASE req.body = ""          -> Raise([t |-> "JSONDecodeError", doc |-> ""])
      [] req.body = "{not json" -> Raise([t |-> "JSONDecodeError", doc |-> req.body])
      [] req.body = "not utf-8" -> Raise([t |-> "UnicodeDecodeError"])
      [] req.body = "null"      -> Return(None)
      [] OTHER                  -> Return([t |-> "dict", of |-> req.id])

\* await req.post()
req_post(req) == [t |-> "MultiDict", of |-> req.id]

(***************************************************************************)
(* The cache                                                               *)
(***************************************************************************)
ParserIds == {"parser"} \cup Requests

EmptyCache == [json |-> Absent, post |-> Absent]

\* self._cache.get(key)
cache_get(c, key) == IF c[key] = Absent THEN None ELSE c[key]

\* The module-level parser used for every request.
ParserShared(r) == "parser"

\* The parser instance whose _cache the handling of request r uses.
ParserFor(r) == r

(***************************************************************************)
(* The loaders, cut at their awaits                                        *)
(***************************************************************************)
InvalidJsonMessages == [json |-> <<"Invalid JSON body.">>]

_handle_invalid_json_error(em) ==
    IF BadRequest \in DOMAIN em
    THEN Raise([t |-> "HTTPResponse", class |-> em[BadRequest],
                body |-> json_dumps(InvalidJsonMessages), headers |-> None,
                content_type |-> "application/json"])
    ELSE Raise([t |-> "KeyError"])

\* load_json up to its await: lines 102-105.
load_json_enter(req, c) ==
    LET json_data == cache_get(c, "json") IN
    IF json_data # None THEN [pc |-> "return", ret |-> Return(json_data)]
    ELSE IF ~(req.body_exists /\ is_json_request(req))
         THEN [pc |-> "return", ret |-> Return(missing)]
         ELSE [pc |-> "await_json", ret |-> NoResult]

\* load_json from its await on, caching whatever the read gave.
load_json_resume_caching_errors(req, c, em) ==
    LET res == req_json(req) IN
    IF res.kind = "raise"
    THEN [ret |-> IF res.value.t = "JSONDecodeError" /\ res.value.doc = ""
                  THEN Return(missing) ELSE _handle_invalid_json_error(em),
          cache |-> [c EXCEPT !.json = missing]]
    ELSE [ret |-> Return(res.value), cache |-> [c EXCEPT !.json = res.value]]

\* load_json from its await on, an empty document treated as invalid.
load_json_resume_empty_invalid(req, c, em) ==
    LET res == req_json(req) IN
    IF res.kind = "raise"
    THEN [ret |-> _handle_invalid_json_error(em), cache |-> c]
    ELSE [ret |-> Return(res.value), cache |-> [c EXCEPT !.json = res.value]]

\* load_json from its await on: lines 107-117.
load_json_resume(req, c, em) ==
    LET res == req_json(req) IN
    IF res.kind = "raise"
    THEN IF res.value.t = "JSONDecodeError"
         THEN IF res.value.doc = ""
              THEN [ret |-> Return(missing), cache |-> c]
              ELSE [ret |-> _handle_invalid_json_error(em), cache |-> c]
         ELSE [ret |-> _handle_invalid_json_error(em), cache |-> c]
    ELSE [ret |-> Return(res.value), cache |-> [c EXCEPT !.json = res.value]]

\* load_form that reads the body whatever the cache holds.
load_form_enter_uncached(c, schema) == [pc |-> "await_post", ret |-> NoResult]

\* load_form up to its await: lines 87-88, and line 90 when the cache hits.
load_form_enter(c, schema) ==
    IF cache_get(c, "post") = None
    THEN [pc |-> "await_post", ret |-> NoResult]
    ELSE [pc |-> "return", ret |-> Return(MultiDictProxy(c.post, schema))]

\* load_form from its await on: lines 89-90.
load_form_resume(req, c, schema) ==
    LET c2 == [c EXCEPT !.post = req_post(req)] IN
    [ret |-> Return(MultiDictProxy(c2.post, schema)), cache |-> c2]

\* load_json_or_form falling back to the form whenever the JSON is falsy.
load_json_or_form_after_json_truthy(jr, c, schema) ==
    IF jr.kind = "raise" THEN [pc |-> "return", ret |-> jr]
    ELSE IF jr.value \notin {missing, None} THEN [pc |-> "return", ret |-> jr]
    ELSE load_form_enter(c, schema)

\* load_json_or_form once load_json has ended with jr: lines 96-98.
load_json_or_form_after_json(jr, c, schema) ==
    IF jr.kind = "raise" THEN [pc |-> "return", ret |-> jr]
    ELSE IF jr.value # missing THEN [pc |-> "return", ret |-> jr]
    ELSE load_form_enter(c, schema)

(***************************************************************************)
(* handle_error                                                            *)
(***************************************************************************)
DEFAULT_VALIDATION_STATUS == 422

\* A status argument is <<>> for None and <<code>> for an int.
StatusArgs == {<<>>, <<BadRequest>>, <<Unprocessable>>, <<418>>}
HeaderArgs == {None, [t |-> "headers", of |-> "X-Unprocessable"]}
MessageArgs == {[name |-> <<"Invalid value.">>],
                [name |-> <<"Shorter than minimum length 3.">>, value |-> <<"Not a valid integer.">>]}

\* Python's `a or b` on an optional int: None and 0 are falsy.
StatusOr(status, default) ==
    IF status = <<>> THEN default
    ELSE IF status[1] = 0 THEN default ELSE status[1]

\* handle_error answering with the default class when none is registered.
handle_error_fallback(em, messages, error_status_code, error_headers) ==
    LET key == StatusOr(error_status_code, DEFAULT_VALIDATION_STATUS) IN
    Raise([t |-> "HTTPResponse",
           class |-> IF key \in DOMAIN em THEN em[key]
                     ELSE em[DEFAULT_VALIDATION_STATUS],
           body |-> json_dumps(messages), headers |-> error_headers,
           content_type |-> "application/json"])

handle_error(em, messages, error_status_code, error_headers) ==
    LET key == StatusOr(error_status_code, DEFAULT_VALIDATION_STATUS)
        error_class == IF key \in DOMAIN em THEN em[key] ELSE "None"
    IN  IF error_class = "None" THEN Raise([t |-> "LookupError"])
        ELSE Raise([t |-> "HTTPResponse", class |-> error_class,
                    body |-> json_dumps(messages), headers |-> error_headers,
                    content_type |-> "application/json"])

(***************************************************************************)
(* Handling a request                                                      *)
(***************************************************************************)
Unset == [t |-> "unset"]

Snapshot(r) ==
    [cache |-> cache[ParserFor(r)], jsonReads |-> jsonReads[r],
     postReads |-> postReads[r]]

IdleShape(r) ==
    [id |-> r, body_exists |-> FALSE, content_type |-> "application/json",
     body |-> ""]

\* No request is being handled or will be.
RequestsIdle ==
    /\ request = [r \in Requests |-> IdleShape(r)]
    /\ phase = [r \in Requests |-> "done"]
    /\ pc = [r \in Requests |-> "idle"]
    /\ op = [r \in Requests |-> [name |-> "none"]]
    /\ data = [r \in Requests |-> Unset]
    /\ ret = [r \in Requests |-> NoResult]
    /\ cache = [p \in ParserIds |-> EmptyCache]
    /\ jsonReads = [r \in Requests |-> 0]
    /\ postReads = [r \in Requests |-> 0]
    /\ calls = [r \in Requests |-> 0]
    /\ atCall = [r \in Requests |-> [cache |-> EmptyCache, jsonReads |-> 0,
                                     postReads |-> 0]]
    /\ budget = [r \in Requests |-> 0]

\* The requests of `active` arrive, each of any shape, and nothing is cached.
RequestsInit(active, limit) ==
    /\ request \in {f \in [Requests -> UNION {RequestShapes(r) : r \in Requests}] :
                      \A r \in Requests :
                          /\ f[r].id = r
                          /\ r \notin active => f[r] = IdleShape(r)}
    /\ phase = [r \in Requests |-> IF r \in active THEN "new" ELSE "done"]
    /\ pc = [r \in Requests |-> "idle"]
    /\ op = [r \in Requests |-> [name |-> "none"]]
    /\ data = [r \in Requests |-> Unset]
    /\ ret = [r \in Requests |-> NoResult]
    /\ cache = [p \in ParserIds |-> EmptyCache]
    /\ jsonReads = [r \in Requests |-> 0]
    /\ postReads = [r \in Requests |-> 0]
    /\ calls = [r \in Requests |-> 0]
    /\ atCall = [r \in Requests |-> [cache |-> EmptyCache, jsonReads |-> 0,
                                     postReads |-> 0]]
    /\ budget = [r \in Requests |-> IF r \in active THEN limit ELSE 0]

\* The handling of request r begins: its parser starts with an empty cache.
Start(r) ==
    /\ phase[r] = "new"
    /\ phase' = [phase EXCEPT ![r] = "running"]
    /\ cache' = [cache EXCEPT ![ParserFor(r)] = EmptyCache]
    /\ UNCHANGED <<request, pc, op, data, ret, jsonReads, postReads, calls,
                   atCall, budget, scanVars, argVars>>

CanCall(r) ==
    /\ phase[r] = "running"
    /\ pc[r] = "idle"
    /\ op[r].name # "handle_error"
    /\ calls[r] < budget[r]

\* What a call leaves when its synchronous part ended as e = [pc, ret].
Suspend(r, e) ==
    /\ pc' = [pc EXCEPT ![r] = IF e.pc = "return" THEN "idle" ELSE e.pc]
    /\ ret' = [ret EXCEPT ![r] = e.ret]
    /\ jsonReads' = [jsonReads EXCEPT
                       ![r] = IF e.pc = "await_json" THEN @ + 1 ELSE @]
    /\ postReads' = [postReads EXCEPT
                       ![r] = IF e.pc = "await_post" THEN @ + 1 ELSE @]

CallLoadJson(r, schema) ==
    /\ CanCall(r)
    /\ op' = [op EXCEPT ![r] = [name |-> "load_json", schema |-> schema]]
    /\ calls' = [calls EXCEPT ![r] = @ + 1]
    /\ atCall' = [atCall EXCEPT ![r] = Snapshot(r)]
    /\ data' = [data EXCEPT ![r] = Unset]
    /\ Suspend(r, load_json_enter(request[r], cache[ParserFor(r)]))
    /\ UNCHANGED <<request, phase, cache, budget, scanVars, argVars>>

CallLoadForm(r, schema) ==
    /\ CanCall(r)
    /\ op' = [op EXCEPT ![r] = [name |-> "load_form", schema |-> schema]]
    /\ calls' = [calls EXCEPT ![r] = @ + 1]
    /\ atCall' = [atCall EXCEPT ![r] = Snapshot(r)]
    /\ data' = [data EXCEPT ![r] = Unset]
    /\ Suspend(r, load_form_enter(cache[ParserFor(r)], schema))
    /\ UNCHANGED <<request, phase, cache, budget, scanVars, argVars>>

CallLoadJsonOrForm(r, schema) ==
    LET e == load_json_enter(request[r], cache[ParserFor(r)]) IN
    /\ CanCall(r)
    /\ op' = [op EXCEPT ![r] = [name |-> "load_json_or_form", schema |-> schema]]
    /\ calls' = [calls EXCEPT ![r] = @ + 1]
    /\ atCall' = [atCall EXCEPT ![r] = Snapshot(r)]
    /\ IF e.pc = "return"
       THEN /\ data' = [data EXCEPT ![r] = e.ret.value]
            /\ Suspend(r, load_json_or_form_after_json(
                              e.ret, cache[ParserFor(r)], schema))
       ELSE /\ data' = [data EXCEPT ![r] = Unset]
            /\ Suspend(r, e)
    /\ UNCHANGED <<request, phase, cache, budget, scanVars, argVars>>

\* req.json() completes and the task of r runs on to its next await or return.
ResumeJson(r) ==
    LET x == load_json_resume(request[r], cache[ParserFor(r)], exception_map) IN
    /\ pc[r] = "await_json"
    /\ cache' = [cache EXCEPT ![ParserFor(r)] = x.cache]
    /\ IF op[r].name = "load_json_or_form"
       THEN /\ data' = [data EXCEPT
                          ![r] = IF x.ret.kind = "return" THEN x.ret.value ELSE @]
            /\ Suspend(r, load_json_or_form_after_json(
                              x.ret, x.cache, op[r].schema))
       ELSE /\ data' = data
            /\ Suspend(r, [pc |-> "return", ret |-> x.ret])
    /\ UNCHANGED <<request, phase, op, calls, atCall, budget, scanVars, argVars>>

\* req.post() completes and the task of r runs on to its return.
ResumePost(r) ==
    LET y == load_form_resume(request[r], cache[ParserFor(r)], op[r].schema) IN
    /\ pc[r] = "await_post"
    /\ cache' = [cache EXCEPT ![ParserFor(r)] = y.cache]
    /\ Suspend(r, [pc |-> "return", ret |-> y.ret])
    /\ UNCHANGED <<request, phase, op, data, calls, atCall, budget, scanVars, argVars>>

\* handle_error that also registers the class it answered with.
HandleErrorRegistering(r, messages, status, headers) ==
    /\ phase[r] = "running" /\ pc[r] = "idle" /\ op[r].name # "handle_error"
    /\ ret[r].kind = "return"
    /\ op' = [op EXCEPT ![r] = [name |-> "handle_error", messages |-> messages,
                                status |-> status, headers |-> headers]]
    /\ ret' = [ret EXCEPT ![r] = handle_error(exception_map, messages, status, headers)]
    /\ exception_map' =
         [s \in DOMAIN exception_map
                  \cup {StatusOr(status, DEFAULT_VALIDATION_STATUS)} |->
             IF s \in DOMAIN exception_map THEN exception_map[s]
             ELSE exception_map[DEFAULT_VALIDATION_STATUS]]
    /\ UNCHANGED <<exports, pending, request, phase, pc, data, cache, jsonReads,
                   postReads, calls, atCall, budget, argVars>>

\* The loaded data failed validation: handle_error(error, req, schema, ...).
HandleError(r, messages, status, headers) ==
    /\ phase[r] = "running" /\ pc[r] = "idle" /\ op[r].name # "handle_error"
    /\ ret[r].kind = "return"
    /\ op' = [op EXCEPT ![r] = [name |-> "handle_error", messages |-> messages,
                                status |-> status, headers |-> headers]]
    /\ ret' = [ret EXCEPT ![r] = handle_error(exception_map, messages, status, headers)]
    /\ UNCHANGED <<request, phase, pc, data, cache, jsonReads, postReads, calls,
                   atCall, budget, scanVars, argVars>>

\* The handling of request r ends: its cache is discarded.
End(r) ==
    /\ phase[r] = "running" /\ pc[r] = "idle"
    /\ phase' = [phase EXCEPT ![r] = "done"]
    /\ cache' = [cache EXCEPT ![ParserFor(r)] = EmptyCache]
    /\ UNCHANGED <<request, pc, op, data, ret, jsonReads, postReads, calls,
                   atCall, budget, scanVars, argVars>>

(***************************************************************************)
(* Specifications                                                          *)
(***************************************************************************)
\* One request handled alone.
Init == ScanDone /\ RequestsInit({"A"}, MaxCalls) /\ ArgsOfHandler

Next ==
    \/ \E r \in Requests : Start(r)
    \/ \E r \in Requests, schema \in Schemas : CallLoadJson(r, schema)
    \/ \E r \in Requests, schema \in Schemas : CallLoadForm(r, schema)
    \/ \E r \in Requests, schema \in Schemas : CallLoadJsonOrForm(r, schema)
    \/ \E r \in Requests : ResumeJson(r)
    \/ \E r \in Requests : ResumePost(r)
    \/ \E r \in Requests, messages \in MessageArgs, status \in StatusArgs,
          headers \in HeaderArgs : HandleError(r, messages, status, headers)
    \/ \E r \in Requests : End(r)
    \/ GetRequest

Spec == Init /\ [][Next]_vars

\* Two requests handled concurrently, their tasks interleaving at the awaits.
InitConcurrent ==
    ScanDone /\ RequestsInit(Requests, MaxConcurrentCalls) /\ ArgsIdle
NextConcurrent ==
    \/ \E r \in Requests : Start(r)
    \/ \E r \in Requests : CallLoadJson(r, "scalar_fields")
    \/ \E r \in Requests : CallLoadForm(r, "scalar_fields")
    \/ \E r \in Requests : CallLoadJsonOrForm(r, "scalar_fields")
    \/ \E r \in Requests : ResumeJson(r)
    \/ \E r \in Requests : ResumePost(r)
    \/ \E r \in Requests : End(r)
SpecConcurrent == InitConcurrent /\ [][NextConcurrent]_vars

\* The start-up scan alone, over any exported names in any order.
InitScan == ScanInit /\ RequestsIdle /\ ArgsIdle
NextScan == ScanStep
SpecScan == InitScan /\ [][NextScan]_vars

\* get_request_from_view_args alone, over the argument lists.
InitArgs == ScanDone /\ RequestsIdle /\ ArgsInit
NextArgs == GetRequest
SpecArgs == InitArgs /\ [][NextArgs]_vars

(***************************************************************************)
(* Properties                                                              *)
(***************************************************************************)
Returned(r, name) == op[r].name = name /\ pc[r] = "idle" /\ ret[r] # NoResult

\* C1 as stated: within one request the awaited req.json() calls plus the
\* awaited req.post() calls never exceed 1.
C1_TotalReadsAtMostOne ==
    \A r \in Requests : jsonReads[r] + postReads[r] <= 1

\* C1 amended: req.post() is awaited at most once per request, and one loader
\* call awaits at most one req.json() and at most one req.post(); the two kinds
\* of read together may exceed 1.
C1_FormReadOnceAndOneReadPerKindPerCall ==
    \A r \in Requests :
        /\ postReads[r] <= 1
        /\ jsonReads[r] - atCall[r].jsonReads <= 1
        /\ postReads[r] - atCall[r].postReads <= 1

\* load_json_or_form read the JSON body, found it empty and read the form.
C1_Witness ==
    \E r \in Requests :
        /\ Returned(r, "load_json_or_form")
        /\ jsonReads[r] = 1 /\ postReads[r] = 1
        /\ atCall[r].jsonReads = 0 /\ atCall[r].postReads = 0

\* C2 as stated: per body kind the read is awaited at most once per request,
\* whatever the body (null, empty, unparsable) and however often the loaders
\* are called.
C2_EachKindReadAtMostOnce ==
    \A r \in Requests : jsonReads[r] <= 1 /\ postReads[r] <= 1

\* The request whose body a returned value was derived from.
Origin(v) ==
    CASE v.t = "dict"           -> {v.of}
      [] v.t = "MultiDictProxy" -> {v.of.of}
      [] OTHER                  -> {}

C4_InvalidJsonRaises400 ==
    \A r \in Requests :
        (/\ Returned(r, "load_json")
         /\ request[r].body_exists /\ request[r].content_type = "application/json"
         /\ request[r].body \in {"{not json", "not utf-8"})
        => /\ ret[r].kind = "raise"
           /\ ret[r].value.t = "HTTPResponse"
           /\ BadRequest \in DOMAIN exception_map
           /\ ret[r].value.class = exception_map[BadRequest]
           /\ ret[r].value.content_type = "application/json"
           /\ ret[r].value.body = json_dumps([json |-> <<"Invalid JSON body.">>])
           /\ cache[ParserFor(r)].json = Absent

\* A body that is not UTF-8 was read and load_json raised.
C4_Witness ==
    \E r \in Requests :
        /\ Returned(r, "load_json") /\ phase[r] = "running"
        /\ request[r].body = "not utf-8"
        /\ ret[r].kind = "raise"
        /\ jsonReads[r] = atCall[r].jsonReads + 1

NothingToParse(req) == ~req.body_exists \/ req.content_type # "application/json"

\* C5: with nothing cached, load_json returns missing when the request has no
\* body, or no JSON content type, or an empty body; in the first two cases
\* without reading the body.
C5_MissingWithoutFailure ==
    \A r \in Requests :
        (/\ Returned(r, "load_json")
         /\ atCall[r].cache = EmptyCache
         /\ (NothingToParse(request[r]) \/ request[r].body = ""))
        => /\ ret[r] = Return(missing)
           /\ NothingToParse(request[r])
                => /\ jsonReads[r] = atCall[r].jsonReads
                   /\ postReads[r] = atCall[r].postReads

\* An empty body with a JSON content type was read and gave missing.
C5_Witness ==
    \E r \in Requests :
        /\ Returned(r, "load_json")
        /\ atCall[r].cache = EmptyCache
        /\ ~NothingToParse(request[r]) /\ request[r].body = ""
        /\ ret[r] = Return(missing)
        /\ jsonReads[r] = atCall[r].jsonReads + 1

\* C6: load_json_or_form returns what load_json returned when that is not
\* missing, without reading the form; otherwise it returns what load_form
\* returns, as it does on a request with no JSON content type.
C6_JsonOrFormFallsBackOnMissing ==
    \A r \in Requests :
        (Returned(r, "load_json_or_form") /\ ret[r].kind = "return")
        => /\ data[r] # Unset
           /\ data[r] # missing
                => ret[r] = Return(data[r]) /\ postReads[r] = atCall[r].postReads
           /\ data[r] = missing
                => ret[r] = Return(MultiDictProxy([t |-> "MultiDict", of |-> r],
                                                  op[r].schema))
           /\ request[r].content_type # "application/json"
                => ret[r].value.t = "MultiDictProxy"

\* A form request: the JSON probe gave missing and the form was returned.
C6_Witness ==
    \E r \in Requests :
        /\ Returned(r, "load_json_or_form")
        /\ request[r].content_type # "application/json" /\ request[r].body_exists
        /\ data[r] = missing
        /\ ret[r].kind = "return" /\ ret[r].value.t = "MultiDictProxy"
        /\ postReads[r] = atCall[r].postReads + 1

Visited(code) ==
    {n \in exports \ pending : is_http_exception(n) /\ status_code(n) = {code}}

RequestOrViewAt(args) == {i \in DOMAIN args : args[i].t \in {"Request", "View"}}

\* C9: get_request_from_view_args returns the first positional argument that
\* is a request, or the .request of the first that is a view, whichever comes
\* first, and fails when there is none or the view's .request is no request.
C9_RequestFoundByKind ==
    found # [kind |-> "none"] =>
        IF RequestOrViewAt(view_args) = {}
        THEN found = Raise([t |-> "ValueError"])
        ELSE LET i == CHOOSE k \in RequestOrViewAt(view_args) :
                          \A j \in RequestOrViewAt(view_args) : k <= j
                 a == view_args[i]
             IN  IF a.t = "Request" THEN found = Return(a)
                 ELSE IF a.request.t = "Request" THEN found = Return(a.request)
                 ELSE found = Raise([t |-> "ValueError"])

\* The request came after a path parameter and was still found.
C9_Witness ==
    /\ Len(view_args) >= 2
    /\ view_args[1].t = "str"
    /\ view_args[2].t = "View"
    /\ found = Return([t |-> "Request", id |-> "B"])

\* C10: once the scan has finished no request-time operation adds, removes or
\* replaces an entry of exception_map.
C10_ExceptionMapImmutable == [][exception_map' = exception_map]_vars

\* A request was handled to its end with loaders and handle_error having run.
C10_Witness ==
    /\ phase["A"] = "done"
    /\ op["A"].name = "handle_error" /\ op["A"].status = <<418>>
    /\ jsonReads["A"] >= 1
    /\ found.kind = "return"

====
